---- MODULE Spec2Model ----
(***************************************************************************)
(* Depth-noise synthesis, validity tracking, depth visualization, the      *)
(* noise batch and the compositor renders of rgbd_image_generator          *)
(* (src/src/improc/depth_noise.py, depth_viz.py, read_write_exr.py,        *)
(* cli_depth_noise_batch.py; src/src/blender/render_ops.py,                *)
(* src/src/blender_rgbd_render_seq.py).                                    *)
(*                                                                         *)
(* Depth arrays are numpy float32 arrays.  float32 is modelled as a binary *)
(* floating-point format with the IEEE-754 rules (round to nearest, ties   *)
(* to even, gradual underflow, overflow to infinity, NaN) and a reduced    *)
(* precision and exponent range: Prec significand bits (float32: 24) and   *)
(* MaxExp + 1 binades of normal numbers (float32: 254).  A finite value is *)
(* held as an integer count n of units, the unit being the spacing of the  *)
(* subnormals; 1.0 is One units, and the normal numbers start at 0.5, so   *)
(* that, as in float32, rounding to an integer happens among normal       *)
(* numbers.  Negative zero is identified with zero.                        *)
(* Python float parameters (sigma_m, step_m, fill, zmax_m, invalid_fill)   *)
(* are cast to float32 by numpy where they meet a float32 array, so they   *)
(* are drawn from the same format.                                         *)
(***************************************************************************)
EXTENDS Integers, Sequences, FiniteSets, TLC

\* Bounds of the model.
Prec == 3
MaxExp == 4
NPix == 2
MaxNoises == 2
MaxRows == 2

-----------------------------------------------------------------------------
(* The floating-point format.                                              *)

Pow2(k) == 2^k
One == Pow2(Prec)
MaxFinite == (Pow2(Prec) - 1) * Pow2(MaxExp)

Abs(a) == IF a < 0 THEN -a ELSE a
Sgn(a) == IF a < 0 THEN -1 ELSE 1

Fin(n) == [cls |-> "fin", n |-> n]
NaN == [cls |-> "nan", n |-> 0]
PosInf == [cls |-> "inf", n |-> 1]
NegInf == [cls |-> "inf", n |-> -1]
Inf(s) == IF s < 0 THEN NegInf ELSE PosInf
Zero == Fin(0)
NoneF == [cls |-> "none", n |-> 0]

Representable(a) == \E e \in 0..MaxExp : a % Pow2(e) = 0 /\ a \div Pow2(e) < Pow2(Prec)
FiniteVals == {Fin(s * a) : s \in {-1, 1}, a \in {a \in 0..MaxFinite : Representable(a)}}
Float32 == FiniteVals \cup {NaN, PosInf, NegInf}

IsNaN(x) == x.cls = "nan"
IsInf(x) == x.cls = "inf"
IsFinite(x) == x.cls = "fin"

\* Position on the extended real line, for the comparisons (never used on NaN).
Key(x) == IF IsInf(x) THEN x.n * (MaxFinite + 1) ELSE x.n
FLt(x, y) == ~IsNaN(x) /\ ~IsNaN(y) /\ Key(x) < Key(y)
FLe(x, y) == ~IsNaN(x) /\ ~IsNaN(y) /\ Key(x) <= Key(y)
FGt(x, y) == FLt(y, x)

\* a / b (a >= 0, b > 0) rounded to the nearest integer, ties to even.
RoundHalfEven(a, b) ==
  LET q == a \div b
      r == a % b
  IN  IF 2 * r < b THEN q
      ELSE IF 2 * r > b THEN q + 1
      ELSE IF q % 2 = 0 THEN q ELSE q + 1

\* The float nearest to num / den units (den > 0): the significand is rounded
\* in the binade of the exact value; past the largest finite value it is +-Inf.
Rnd(num, den) ==
  LET a  == Abs(num)
      es == {e \in 0..MaxExp : a < Pow2(Prec + e) * den}
  IN  IF es = {} THEN Inf(num)
      ELSE LET e == CHOOSE e \in es : \A f \in es : e <= f
               v == RoundHalfEven(a, den * Pow2(e)) * Pow2(e)
           IN  IF v > MaxFinite THEN Inf(num) ELSE Fin(Sgn(num) * v)

FAdd(x, y) ==
  IF IsNaN(x) \/ IsNaN(y) THEN NaN
  ELSE IF IsInf(x) /\ IsInf(y) THEN (IF x.n = y.n THEN x ELSE NaN)
  ELSE IF IsInf(x) THEN x
  ELSE IF IsInf(y) THEN y
  ELSE Rnd(x.n + y.n, 1)

FMul(x, y) ==
  IF IsNaN(x) \/ IsNaN(y) THEN NaN
  ELSE IF IsInf(x) \/ IsInf(y)
       THEN (IF x.n = 0 \/ y.n = 0 THEN NaN ELSE Inf(Sgn(x.n) * Sgn(y.n)))
  ELSE Rnd(x.n * y.n, One)

FDiv(x, y) ==
  IF IsNaN(x) \/ IsNaN(y) THEN NaN
  ELSE IF IsInf(x) THEN (IF IsInf(y) THEN NaN ELSE Inf(x.n * Sgn(y.n)))
  ELSE IF IsInf(y) THEN Zero
  ELSE IF y.n = 0 THEN (IF x.n = 0 THEN NaN ELSE Inf(x.n))
  ELSE Rnd(x.n * One * Sgn(y.n), Abs(y.n))

\* np.round: to the nearest integer, ties to even; NaN and +-Inf pass through.
FRint(x) ==
  IF IsFinite(x) THEN Fin(Sgn(x.n) * RoundHalfEven(Abs(x.n), One) * One) ELSE x

-----------------------------------------------------------------------------
(* Arrays: a depth frame and a validity mask over the same pixels.         *)

Pixels == 1..NPix
Frames == [Pixels -> Float32]
Masks == [Pixels -> BOOLEAN]

-----------------------------------------------------------------------------
(* The noise operators: apply(d, valid_mask) -> (d, valid_mask).  The      *)
(* random draws of an invocation are its last argument.                    *)

\* GaussianDepthNoise.apply adding the noise to every pixel, the mask ignored.
GaussianApplyUnmasked(dd, valid_mask, sigma_m, n) ==
  IF FLe(sigma_m, Zero) THEN <<dd, valid_mask>>
  ELSE <<[i \in Pixels |-> FAdd(dd[i], n[i])], valid_mask>>

\* GaussianDepthNoise.apply; n is np.random.normal(0, sigma_m).astype(float32).
GaussianApply(dd, valid_mask, sigma_m, n) ==
  IF FLe(sigma_m, Zero) THEN <<dd, valid_mask>>
  ELSE <<[i \in Pixels |-> IF valid_mask[i] THEN FAdd(dd[i], n[i]) ELSE dd[i]],
         valid_mask>>

\* MultiplicativeDepthNoise.apply also invalidating the products that are not positive.
MultiplicativeApplyDropsNonPositive(dd, valid_mask, sigma_rel, scale) ==
  IF FLe(sigma_rel, Zero) THEN <<dd, valid_mask>>
  ELSE <<[i \in Pixels |-> IF valid_mask[i] THEN FMul(dd[i], scale[i]) ELSE dd[i]],
         [i \in Pixels |-> valid_mask[i] /\ FGt(FMul(dd[i], scale[i]), Zero)]>>

\* MultiplicativeDepthNoise.apply; scale is (1 + normal(0, sigma_rel)).astype(float32).
MultiplicativeApply(dd, valid_mask, sigma_rel, scale) ==
  IF FLe(sigma_rel, Zero) THEN <<dd, valid_mask>>
  ELSE <<[i \in Pixels |-> IF valid_mask[i] THEN FMul(dd[i], scale[i]) ELSE dd[i]],
         valid_mask>>

\* np.floor in place of np.round.
FFloor(x) == IF IsFinite(x) THEN Fin((x.n \div One) * One) ELSE x
QuantizeValueFloor(v, step_m) == FMul(FFloor(FDiv(v, step_m)), step_m)

\* round(v / step_m) * step_m in float32, as the code evaluates it.
QuantizeValue(v, step_m) == FMul(FRint(FDiv(v, step_m)), step_m)

\* QuantizationDepthNoise.apply with the guard `step_m < 0`.
QuantizationApplyStrictGuard(dd, valid_mask, step_m) ==
  IF FLt(step_m, Zero) THEN <<dd, valid_mask>>
  ELSE <<[i \in Pixels |-> IF valid_mask[i] THEN QuantizeValue(dd[i], step_m) ELSE dd[i]],
         valid_mask>>

\* QuantizationDepthNoise.apply.
QuantizationApply(dd, valid_mask, step_m) ==
  IF FLe(step_m, Zero) THEN <<dd, valid_mask>>
  ELSE <<[i \in Pixels |-> IF valid_mask[i] THEN QuantizeValue(dd[i], step_m) ELSE dd[i]],
         valid_mask>>

\* The comparison of the draw with p turned around.
DropMaskInverted(valid_mask, p, rand) == [i \in Pixels |-> FLt(p, rand[i]) /\ valid_mask[i]]

\* The pixels DropoutDepthNoise.apply drops; rand is np.random.rand(*d.shape).
DropMask(valid_mask, p, rand) == [i \in Pixels |-> FLt(rand[i], p) /\ valid_mask[i]]

\* DropoutDepthNoise.apply returning `~drop` as the mask.
DropoutApplyMaskFromDrop(dd, valid_mask, p, fill, rand) ==
  IF FLe(p, Zero) THEN <<dd, valid_mask>>
  ELSE LET drop == DropMask(valid_mask, p, rand)
       IN  IF \A i \in Pixels : ~drop[i] THEN <<dd, valid_mask>>
           ELSE <<[i \in Pixels |-> IF drop[i] THEN fill ELSE dd[i]],
                  [i \in Pixels |-> ~drop[i]]>>

\* DropoutDepthNoise.apply.
DropoutApply(dd, valid_mask, p, fill, rand) ==
  IF FLe(p, Zero) THEN <<dd, valid_mask>>
  ELSE LET drop == DropMask(valid_mask, p, rand)
       IN  IF \A i \in Pixels : ~drop[i] THEN <<dd, valid_mask>>
           ELSE <<[i \in Pixels |-> IF drop[i] THEN fill ELSE dd[i]],
                  [i \in Pixels |-> IF drop[i] THEN FALSE ELSE valid_mask[i]]>>

-----------------------------------------------------------------------------
(* Inputs.                                                                 *)

\* sigma_m, sigma_rel: -1.0, 0.0, 1.0.
SigmaInputs == {Fin(-One), Zero, Fin(One)}
\* One pixel's Gaussian sample: -2.0, 0.5.
NoiseDraws == {Fin(-2 * One), Fin(One \div 2)}
\* One pixel's multiplicative scale: -0.5, 1.5.
ScaleDraws == {Fin(-(One \div 2)), Fin(One + One \div 2)}
\* step_m: -1.0, 0.0 and every positive value up to 3.0.
StepInputs == {Fin(-One), Zero} \cup {x \in FiniteVals : 0 < x.n /\ x.n <= 3 * One}
\* p: -1.0, 0.0, 0.5, 1.0.
DropProbs == {Fin(-One), Zero, Fin(One \div 2), Fin(One)}
\* fill: 0.0, 5.0, NaN.
DropFills == {Zero, Fin(5 * One), NaN}
\* One pixel's np.random.rand value, in [0, 1): 0.0, 0.5.
RandDraws == {Zero, Fin(One \div 2)}

\* Depth values of the first pixel: NaN, +Inf, -1.0, 2.0, 8.0.
DepthSamples == {NaN, PosInf, Fin(-One), Fin(2 * One), Fin(8 * One)}
\* A zero, an in-range and a far pixel: 0.0, 2.0, 12.0.
OtherSamples == {Zero, Fin(2 * One), Fin(12 * One)}
\* Frames whose first pixel ranges over `first` and whose other pixels over OtherSamples.
FramesOver(first) ==
  {[i \in Pixels |-> IF i = 1 THEN x ELSE r[i]] :
     x \in first, r \in [Pixels \ {1} -> OtherSamples]}
\* Frames given to an operator: the first pixel takes every value of the format.
OpFrames == FramesOver(Float32)

Noise(kind, param, fill) == [kind |-> kind, param |-> param, fill |-> fill]
Unset == <<>>

\* apply_noise_chain's arguments.
ChainFrames == FramesOver(DepthSamples)
\* zmax_m: None, 0.0, 10.0.
ZmaxInputs == {NoneF, Zero, Fin(10 * One)}
\* invalid_fill: 0.0 (the default), -1.0.
InvalidFills == {Zero, Fin(-One)}
\* One pixel's multiplicative scale inside a chain: 1.5.
ChainScaleDraws == {Fin(One + One \div 2)}
\* The operators a `noises` list is made of.
NoiseModels ==
  {Noise("Gaussian", Zero, Zero), Noise("Gaussian", Fin(One), Zero),
   Noise("Multiplicative", Fin(One), Zero),
   Noise("Quantization", Fin(One + One \div 2), Zero),
   Noise("Dropout", Fin(One \div 2), Fin(5 * One)), Noise("Dropout", Fin(One), Zero)}

-----------------------------------------------------------------------------
VARIABLES
  pc,      \* control point
  d,       \* the depth array `d`
  valid,   \* the mask `valid` / `valid_mask`
  op,      \* the operator object whose apply was invoked last / the render function called
  ret,     \* the pair an operator's apply returned
  depth_m, zmax_m, invalid_fill, nonpositive_to_zero,   \* apply_noise_chain's arguments
  noises,  \* the operators of the `noises` list iterated so far
  out,     \* apply_noise_chain's return value / the visualizer's png_u16
  io,      \* the file-system calls made so far, in order
  files,   \* which files can be read and written
  invalid_color,   \* the invalid_color keyword of a visualizer call
  cfg,     \* the batch's loaded configuration
  manifest,    \* the rows of manifest.csv
  row,     \* the index of the manifest row being processed
  heap,    \* the array objects allocated so far; an object's id is its index
  refs,    \* the array object each name of apply_noise_chain is bound to
  calls,   \* the apply invocations made so far, in order
  scene,   \* bpy.context.scene: camera, use_nodes, render.filepath
  prev     \* a render function's locals prev_camera, prev_use_nodes, prev_filepath

args == <<depth_m, zmax_m, invalid_fill, nonpositive_to_zero>>
mem == <<heap, refs, calls>>
rend == <<scene, prev>>
post == <<io, files, invalid_color, cfg, manifest, row, mem, rend>>
vars == <<pc, d, valid, op, ret, depth_m, zmax_m, invalid_fill, nonpositive_to_zero, noises, out,
          io, files, invalid_color, cfg, manifest, row, heap, refs, calls, scene, prev>>

\* The noise functions touch no file and no batch state.
NoMem == heap = <<>> /\ refs = Unset /\ calls = <<>>
NoRend == scene = Unset /\ prev = Unset
NoPost ==
  /\ io = <<>> /\ files = Unset /\ invalid_color = Unset
  /\ cfg = Unset /\ manifest = Unset /\ row = 0
  /\ NoMem /\ NoRend

-----------------------------------------------------------------------------
(* The operator contract: one call of apply on an arbitrary frame and mask *)

InitOps ==
  /\ pc = "call"
  /\ d \in OpFrames
  /\ valid \in Masks
  /\ op = Unset
  /\ ret = Unset
  /\ depth_m = Unset /\ zmax_m = NoneF /\ invalid_fill = Zero
  /\ nonpositive_to_zero = TRUE /\ noises = <<>> /\ out = Unset
  /\ NoPost

Return(o, r) ==
  /\ pc = "call"
  /\ pc' = "returned"
  /\ op' = o
  /\ ret' = r
  /\ UNCHANGED <<d, valid, args, noises, out, post>>

CallGaussian(sigma_m) ==
  \E n \in (IF FLe(sigma_m, Zero) THEN {[i \in Pixels |-> Zero]} ELSE [Pixels -> NoiseDraws]) :
    Return(Noise("Gaussian", sigma_m, Zero), GaussianApply(d, valid, sigma_m, n))

CallMultiplicative(sigma_rel) ==
  \E scale \in (IF FLe(sigma_rel, Zero) THEN {[i \in Pixels |-> Zero]} ELSE [Pixels -> ScaleDraws]) :
    Return(Noise("Multiplicative", sigma_rel, Zero), MultiplicativeApply(d, valid, sigma_rel, scale))

CallQuantization(step_m) ==
  Return(Noise("Quantization", step_m, Zero), QuantizationApply(d, valid, step_m))

CallDropout(p, fill) ==
  \E rand \in (IF FLe(p, Zero) THEN {[i \in Pixels |-> Zero]} ELSE [Pixels -> RandDraws]) :
    Return(Noise("Dropout", p, fill), DropoutApply(d, valid, p, fill, rand))

NextOps ==
  \/ \E sigma_m \in SigmaInputs : CallGaussian(sigma_m)
  \/ \E sigma_rel \in SigmaInputs : CallMultiplicative(sigma_rel)
  \/ \E step_m \in StepInputs : CallQuantization(step_m)
  \/ \E p \in DropProbs, fill \in DropFills : CallDropout(p, fill)

SpecOps == InitOps /\ [][NextOps]_vars

Returned == pc = "returned"
IsOp(kind) == Returned /\ op.kind = kind

\* C1: mask monotonicity.  For each of the four operators, every frame, mask,
\* parameter and draw, the mask apply returns is a subset of the mask it was
\* given: no pixel invalid on input is valid on output.
C1_MaskMonotone == Returned => \A i \in Pixels : ret[2][i] => valid[i]

\* Dropout has narrowed a mask that already had an invalid pixel.
C1_Witness ==
  /\ IsOp("Dropout")
  /\ \E i \in Pixels : valid[i] /\ ~ret[2][i]
  /\ \E i \in Pixels : ~valid[i] /\ ~ret[2][i]

\* C3: for each operator and every input, a pixel whose mask entry is false has
\* the same depth value in the returned frame as in the input frame.
C3_OutsideMaskUnchanged == Returned => \A i \in Pixels : ~valid[i] => ret[1][i] = d[i]

\* Gaussian noise has changed a valid pixel beside an invalid one.
C3_Witness ==
  /\ IsOp("Gaussian")
  /\ \E i \in Pixels : ~valid[i] /\ IsFinite(d[i])
  /\ \E i \in Pixels : valid[i] /\ ret[1][i] # d[i]

\* C4: no-op thresholds.  An operator whose parameter (sigma_m, sigma_rel,
\* step_m, p) is 0, or any value <= 0, returns the frame and the mask it was given.
C4_NoOpThreshold == Returned /\ FLe(op.param, Zero) => ret = <<d, valid>>

\* Quantization with step_m = 0 was applied to a valid finite pixel.
C4_Witness ==
  /\ IsOp("Quantization") /\ op.param = Zero
  /\ \E i \in Pixels : valid[i] /\ IsFinite(d[i]) /\ d[i] # Zero

\* C5: quantization idempotence.  For every step_m > 0, every frame and mask,
\* applying Quantization(step_m) to what Quantization(step_m) returned gives the
\* same frame and mask again.
C5_QuantizationIdempotent ==
  IsOp("Quantization") /\ FGt(op.param, Zero)
    => QuantizationApply(ret[1], ret[2], op.param) = ret

\* Quantization has moved a valid finite pixel to another finite value, with a
\* quotient that had to be rounded to the format before np.round.
C5_Witness ==
  /\ IsOp("Quantization") /\ FGt(op.param, Zero)
  /\ \E i \in Pixels :
       /\ valid[i] /\ IsFinite(d[i]) /\ IsFinite(ret[1][i]) /\ ret[1][i] # d[i]
       /\ (d[i].n * One) % op.param.n # 0

\* C22: Dropout is the only operator that narrows the mask.  Gaussian,
\* Multiplicative and Quantization return the mask they were given, for every
\* frame, mask, parameter and draw; the mask Dropout returns differs from its
\* input exactly on the pixels it dropped: those were valid, are invalid and
\* hold the fill value, and a pixel whose mask entry is the same kept its value.
C22_OnlyDropoutNarrows ==
  Returned =>
    IF op.kind = "Dropout"
    THEN \A i \in Pixels :
           /\ ret[2][i] # valid[i] => valid[i] /\ ~ret[2][i] /\ ret[1][i] = op.fill
           /\ ret[2][i] = valid[i] => ret[1][i] = d[i]
    ELSE ret[2] = valid

\* Multiplicative noise has turned a valid pixel's value negative, or into NaN,
\* and returned the mask unchanged.
C22_Witness ==
  /\ IsOp("Multiplicative") /\ FGt(op.param, Zero)
  /\ \E i \in Pixels : valid[i] /\ ret[2][i] /\ ~FGt(ret[1][i], Zero) /\ ret[1][i] # d[i]
  /\ \E i \in Pixels : ~valid[i]

\* |w - v| <= step/2 + 2^-Prec * (|v| + |k * step|), in units, times 2^(Prec+1).
WithinRoundedHalfStep(v, k, w, step) ==
  Pow2(Prec + 1) * Abs(w.n - v.n)
    <= Pow2(Prec) * step.n + 2 * (Abs(v.n) + (Abs(k.n) \div One) * step.n)

\* C10 as stated: for every step_m > 0 and every valid pixel (of finite value),
\* Quantization replaces the value by an integer multiple of step_m that differs
\* from the value by at most step_m / 2.
C10_NearestMultiple ==
  IsOp("Quantization") /\ FGt(op.param, Zero) =>
    \A i \in Pixels : valid[i] /\ IsFinite(d[i]) =>
      /\ IsFinite(ret[1][i])
      /\ ret[1][i].n % op.param.n = 0
      /\ 2 * Abs(ret[1][i].n - d[i].n) <= op.param.n

\* C10 amended: for every step_m > 0 and every valid pixel of finite value v,
\* Quantization replaces v by the float32 product k * step_m, k being np.round
\* (ties to even) of the float32 quotient v / step_m; unless that product
\* overflows to infinity, it differs from v by at most step_m / 2 plus the two
\* roundings, 2^-Prec * (|v| + |k * step_m|) (float32: 2^-24).
C10_RoundedNearestMultiple ==
  IsOp("Quantization") /\ FGt(op.param, Zero) =>
    \A i \in Pixels : valid[i] /\ IsFinite(d[i]) =>
      LET k == FRint(FDiv(d[i], op.param))
      IN  /\ ret[1][i] = FMul(k, op.param)
          /\ (IsFinite(ret[1][i]) => WithinRoundedHalfStep(d[i], k, ret[1][i], op.param))

\* Quantization has returned a finite value farther than step_m / 2 from a valid
\* pixel's value.
C10_Witness ==
  /\ IsOp("Quantization") /\ FGt(op.param, Zero)
  /\ \E i \in Pixels :
       /\ valid[i] /\ IsFinite(d[i]) /\ IsFinite(ret[1][i])
       /\ 2 * Abs(ret[1][i].n - d[i].n) > op.param.n

-----------------------------------------------------------------------------
(* apply_noise_chain.                                                      *)

\* _initial_valid_mask without np.isfinite.
InitialValidMaskNoFinite(dd, zmax) ==
  LET is_finite_pos == [i \in Pixels |-> FGt(dd[i], Zero)]
  IN  IF zmax # NoneF /\ FGt(zmax, Zero)
      THEN [i \in Pixels |-> is_finite_pos[i] /\ FLe(dd[i], zmax)]
      ELSE is_finite_pos

_initial_valid_mask(dd, zmax) ==
  LET is_finite_pos == [i \in Pixels |-> IsFinite(dd[i]) /\ FGt(dd[i], Zero)]
  IN  IF zmax # NoneF /\ FGt(zmax, Zero)
      THEN [i \in Pixels |-> is_finite_pos[i] /\ FLe(dd[i], zmax)]
      ELSE is_finite_pos

\* Steps 3 and 4 without the zmax test.
SanitizedNoRange(dd, zmax, fill, nonpos) ==
  LET v == [i \in Pixels |-> IF nonpos THEN IsFinite(dd[i]) /\ FGt(dd[i], Zero)
                                      ELSE IsFinite(dd[i])]
  IN  <<[i \in Pixels |-> IF v[i] THEN dd[i] ELSE fill], v>>

\* Steps 3 and 4 testing `> 0` whatever nonpositive_to_zero says.
SanitizedAlwaysPositive(dd, zmax, fill, nonpos) ==
  LET is_finite_pos == [i \in Pixels |-> IsFinite(dd[i]) /\ FGt(dd[i], Zero)]
      v == IF zmax # NoneF /\ FGt(zmax, Zero)
           THEN [i \in Pixels |-> is_finite_pos[i] /\ FLe(dd[i], zmax)]
           ELSE is_finite_pos
  IN  <<[i \in Pixels |-> IF v[i] THEN dd[i] ELSE fill], v>>

\* Steps 3 and 4: the mask from the values after the noise, then the fill.
Sanitized(dd, zmax, fill, nonpos) ==
  LET is_finite_pos == [i \in Pixels |-> IF nonpos THEN IsFinite(dd[i]) /\ FGt(dd[i], Zero)
                                                  ELSE IsFinite(dd[i])]
      v == IF zmax # NoneF /\ FGt(zmax, Zero)
           THEN [i \in Pixels |-> is_finite_pos[i] /\ FLe(dd[i], zmax)]
           ELSE is_finite_pos
  IN  <<[i \in Pixels |-> IF v[i] THEN dd[i] ELSE fill], v>>

Init ==
  /\ pc = "begin"
  /\ depth_m \in ChainFrames
  /\ zmax_m \in ZmaxInputs
  /\ invalid_fill \in InvalidFills
  /\ nonpositive_to_zero \in BOOLEAN
  /\ noises = <<>>
  /\ d = Unset /\ valid = Unset /\ out = Unset
  /\ op = Unset /\ ret = Unset
  /\ NoPost

\* d = depth_m.astype(np.float32, copy=True); valid = _initial_valid_mask(d, zmax_m)
Begin ==
  /\ pc = "begin"
  /\ d' = depth_m
  /\ valid' = _initial_valid_mask(depth_m, zmax_m)
  /\ pc' = "noises"
  /\ UNCHANGED <<op, ret, args, noises, out, post>>

\* One iteration of `for n in noises: d, valid = n.apply(d, valid)`.
Iterate(o, r) ==
  /\ pc = "noises"
  /\ Len(noises) < MaxNoises
  /\ noises' = Append(noises, o)
  /\ d' = r[1]
  /\ valid' = r[2]
  /\ UNCHANGED <<pc, op, ret, args, out, post>>

RunGaussian(o) ==
  /\ o.kind = "Gaussian"
  /\ \E n \in (IF FLe(o.param, Zero) THEN {[i \in Pixels |-> Zero]} ELSE [Pixels -> NoiseDraws]) :
       Iterate(o, GaussianApply(d, valid, o.param, n))

RunMultiplicative(o) ==
  /\ o.kind = "Multiplicative"
  /\ \E scale \in (IF FLe(o.param, Zero) THEN {[i \in Pixels |-> Zero]} ELSE [Pixels -> ChainScaleDraws]) :
       Iterate(o, MultiplicativeApply(d, valid, o.param, scale))

RunQuantization(o) ==
  /\ o.kind = "Quantization"
  /\ Iterate(o, QuantizationApply(d, valid, o.param))

RunDropout(o) ==
  /\ o.kind = "Dropout"
  /\ \E rand \in (IF FLe(o.param, Zero) THEN {[i \in Pixels |-> Zero]} ELSE [Pixels -> RandDraws]) :
       Iterate(o, DropoutApply(d, valid, o.param, o.fill, rand))

\* The end of the list: sanitize, fill, return.
Finish ==
  /\ pc = "noises"
  /\ LET s == Sanitized(d, zmax_m, invalid_fill, nonpositive_to_zero)
     IN  out' = s[1] /\ valid' = s[2]
  /\ pc' = "done"
  /\ UNCHANGED <<d, op, ret, args, noises, post>>

Next ==
  \/ Begin
  \/ \E o \in NoiseModels : RunGaussian(o)
  \/ \E o \in NoiseModels : RunMultiplicative(o)
  \/ \E o \in NoiseModels : RunQuantization(o)
  \/ \E o \in NoiseModels : RunDropout(o)
  \/ Finish

Spec == Init /\ [][Next]_vars

-----------------------------------------------------------------------------
(* Properties of apply_noise_chain.                                        *)

Done == pc = "done"
HasRange == zmax_m # NoneF /\ zmax_m.n > 0

\* The validity rule in the units of the format: finite, strictly positive and,
\* when a positive zmax is given, not above it.
InRange(x) == x.cls = "fin" /\ x.n > 0 /\ (HasRange => x.n <= zmax_m.n)

\* C2: with zmax > 0 and nonpositive_to_zero = True, every pixel of the returned
\* frame is finite, strictly positive and <= zmax, or equals invalid_fill.
C2_SanitizeClosesLoop ==
  Done /\ HasRange /\ nonpositive_to_zero =>
    \A i \in Pixels :
      \/ out[i].cls = "fin" /\ out[i].n > 0 /\ out[i].n <= zmax_m.n
      \/ out[i] = invalid_fill

\* A pixel that was valid at first has been pushed above zmax by the noise and
\* filled, while another pixel kept a value that is not the fill.
C2_Witness ==
  /\ Done /\ HasRange /\ nonpositive_to_zero /\ Len(noises) > 0
  /\ \E i \in Pixels : InRange(depth_m[i]) /\ FGt(d[i], zmax_m) /\ out[i] = invalid_fill
  /\ \E j \in Pixels : out[j] # invalid_fill /\ out[j] # depth_m[j]

\* C6: the initial mask marks a pixel valid iff its value is finite, strictly
\* positive and, when zmax > 0, <= zmax; with zmax <= 0 or absent every finite
\* strictly positive pixel is valid.
C6_InitialValidMask ==
  pc = "noises" /\ noises = <<>> =>
    \A i \in Pixels :
      /\ valid[i] <=> InRange(depth_m[i])
      /\ ~HasRange => (valid[i] <=> depth_m[i].cls = "fin" /\ depth_m[i].n > 0)

\* With zmax = 0 a pixel of 12.0 is valid at first and an infinite one is not.
C6_Witness ==
  /\ pc = "noises" /\ noises = <<>> /\ zmax_m = Zero
  /\ depth_m[1] = PosInf /\ ~valid[1]
  /\ \E i \in Pixels : depth_m[i] = Fin(12 * One) /\ valid[i]

\* C7: with nonpositive_to_zero = True a pixel outside the initial mask equals
\* invalid_fill in the returned frame, whatever the operators and the draws; 12.0
\* with zmax = 10.0 and no operators gives 0.0.
C7_InitiallyInvalidFilled ==
  /\ Done /\ nonpositive_to_zero =>
       \A i \in Pixels : ~InRange(depth_m[i]) => out[i] = invalid_fill
  /\ Done /\ nonpositive_to_zero /\ noises = <<>> /\ zmax_m = Fin(10 * One)
       /\ invalid_fill = Zero =>
       \A i \in Pixels : depth_m[i] = Fin(12 * One) => out[i] = Zero

\* A chain with a Gaussian of positive sigma has moved a valid pixel and returned
\* the fill for a pixel of 12.0 under zmax = 10.0.
C7_Witness ==
  /\ Done /\ nonpositive_to_zero /\ zmax_m = Fin(10 * One)
  /\ \E k \in 1..Len(noises) : noises[k].kind = "Gaussian" /\ FGt(noises[k].param, Zero)
  /\ \E i \in Pixels : depth_m[i] = Fin(12 * One) /\ out[i] = invalid_fill
  /\ \E j \in Pixels : InRange(depth_m[j]) /\ d[j] # depth_m[j]

\* C8 as stated: with an empty operator list the call returns, for every pixel,
\* the input value where the initial mask holds and invalid_fill elsewhere.
C8_EmptyListAsStated ==
  /\ pc = "noises" /\ noises = <<>> => ENABLED Finish
  /\ Done /\ noises = <<>> =>
       \A i \in Pixels : out[i] = IF InRange(depth_m[i]) THEN depth_m[i] ELSE invalid_fill

\* C8: with an empty operator list and nonpositive_to_zero = True the call does
\* not raise and returns, for every pixel, the input value where the initial
\* mask holds and invalid_fill elsewhere.
C8_EmptyList ==
  /\ pc = "noises" /\ noises = <<>> => ENABLED Finish
  /\ Done /\ noises = <<>> /\ nonpositive_to_zero =>
       \A i \in Pixels : out[i] = IF InRange(depth_m[i]) THEN depth_m[i] ELSE invalid_fill

\* The empty chain has returned a frame with a kept pixel and a filled one.
C8_Witness ==
  /\ Done /\ noises = <<>> /\ nonpositive_to_zero
  /\ \E i \in Pixels : InRange(depth_m[i]) /\ out[i] = depth_m[i] /\ out[i] # invalid_fill
  /\ \E j \in Pixels : ~InRange(depth_m[j]) /\ out[j] = invalid_fill /\ out[j] # depth_m[j]

FullDropoutChain == <<Noise("Gaussian", Zero, Zero), Noise("Dropout", Fin(One), Zero)>>

FullDropoutCall ==
  /\ noises = FullDropoutChain
  /\ zmax_m = Fin(10 * One) /\ invalid_fill = Zero
  /\ \A i \in Pixels : depth_m[i] = Fin(2 * One)

\* C9: a Dropout of p = 1.0 clears every valid pixel from the mask and sets it to
\* fill, whatever the draw; the chain [Gaussian(0.0), Dropout(1.0, 0.0)] with
\* zmax = 10.0 on a frame of constant 2.0 ends its operators with an all-false
\* mask and returns 0.0 everywhere.
C9_FullDropout ==
  /\ [][\A o \in NoiseModels :
          o.kind = "Dropout" /\ o.param = Fin(One) /\ RunDropout(o) =>
            \A i \in Pixels : /\ ~valid'[i]
                              /\ valid[i] => d'[i] = o.fill
                              /\ ~valid[i] => d'[i] = d[i]]_vars
  /\ [](FullDropoutCall /\ pc = "noises" =>
          \A i \in Pixels : ~valid[i] /\ d[i] = Zero)
  /\ [](FullDropoutCall /\ Done => \A i \in Pixels : out[i] = Zero)

\* The chain of the example has returned.
C9_Witness ==
  /\ FullDropoutCall /\ Done /\ nonpositive_to_zero
  /\ \A i \in Pixels : out[i] = Zero /\ ~valid[i] /\ d[i] # depth_m[i]

\* The sanitize rule on a value after the noise: finite, > 0 when
\* nonpositive_to_zero is true, and <= zmax when zmax > 0.
ValidByValue(x) ==
  /\ x.cls = "fin"
  /\ nonpositive_to_zero => x.n > 0
  /\ HasRange => x.n <= zmax_m.n

\* C24 as stated: an output pixel equals its post-noise value if and only if
\* that value passes the sanitize rule; every other output pixel equals invalid_fill.
C24_ValueValidityAsStated ==
  Done => \A i \in Pixels :
            /\ out[i] = d[i] <=> ValidByValue(d[i])
            /\ ~ValidByValue(d[i]) => out[i] = invalid_fill

\* C24 amended: the sanitize step derives validity only from the post-noise
\* values, not from the operators' mask.  An output pixel equals its post-noise
\* value if that value passes the sanitize rule, and equals invalid_fill
\* otherwise (which is the post-noise value too when the two coincide).
C24_ValueValidity ==
  Done => \A i \in Pixels :
            out[i] = IF ValidByValue(d[i]) THEN d[i] ELSE invalid_fill

\* With nonpositive_to_zero false a negative value was returned as it is beside
\* a filled pixel, and a pixel a Dropout had dropped came back with the
\* operator's fill, not invalid_fill.
C24_Witness ==
  /\ Done /\ ~nonpositive_to_zero /\ noises = <<Noise("Dropout", Fin(One \div 2), Fin(5 * One))>>
  /\ \E i \in Pixels : d[i].cls = "fin" /\ d[i].n < 0 /\ out[i] = d[i] /\ out[i] # invalid_fill
  /\ \E j \in Pixels : d[j] = Fin(5 * One) /\ depth_m[j] # d[j] /\ out[j] = d[j]

\* C25: for every chain containing Dropout(p, fill) and every fill value, a
\* pixel Dropout removed from the mask is invalid in the result: its output is
\* invalid_fill.  Stated for the chains made of one Dropout, where the pixels
\* removed are the initially valid ones whose value changed.
C25_DroppedIsInvalid ==
  Done /\ Len(noises) = 1 /\ noises[1].kind = "Dropout" =>
    \A i \in Pixels :
      InRange(depth_m[i]) /\ d[i] # depth_m[i] => out[i] = invalid_fill

-----------------------------------------------------------------------------
(* clamp_depth_to_zmax beside apply_noise_chain: a caller clamps a frame,  *)
(* runs the chain on the same frame, and clamps the chain's result as the  *)
(* noise batch does.                                                       *)

\* clamp_depth_to_zmax saturating the values above zmax at zmax.
ClampSaturating(depth, zmax, nonpos) ==
  LET x == [i \in Pixels |->
              IF IsFinite(depth[i]) /\ (nonpos => FGt(depth[i], Zero)) THEN depth[i] ELSE Zero]
  IN  IF zmax # NoneF /\ FGt(zmax, Zero)
      THEN [i \in Pixels |-> IF FLe(x[i], zmax) THEN x[i] ELSE zmax]
      ELSE x

\* clamp_depth_to_zmax(depth_m, zmax_m, nonpositive_to_zero).
clamp_depth_to_zmax(depth, zmax, nonpos) ==
  LET x == [i \in Pixels |->
              IF IsFinite(depth[i]) /\ (nonpos => FGt(depth[i], Zero)) THEN depth[i] ELSE Zero]
  IN  IF zmax # NoneF /\ FGt(zmax, Zero)
      THEN [i \in Pixels |-> IF FLe(x[i], zmax) THEN x[i] ELSE Zero]
      ELSE x

InitClamp ==
  /\ pc = "clamp_call"
  /\ depth_m \in ChainFrames
  /\ zmax_m \in ZmaxInputs
  /\ invalid_fill = Zero
  /\ nonpositive_to_zero \in BOOLEAN
  /\ noises = <<>>
  /\ d = Unset /\ valid = Unset /\ out = Unset
  /\ op = Unset /\ ret = Unset
  /\ NoPost

\* ret = clamp_depth_to_zmax(depth_m, zmax_m, nonpositive_to_zero)
ClampCall ==
  /\ pc = "clamp_call"
  /\ ret' = clamp_depth_to_zmax(depth_m, zmax_m, nonpositive_to_zero)
  /\ pc' = "begin"
  /\ UNCHANGED <<d, valid, op, args, noises, out, post>>

\* The batch's clamp of the chain's result: `if zmax > 0.0: d_noisy =
\* clamp_depth_to_zmax(d_noisy, zmax)`, after a chain run with a float zmax and
\* nonpositive_to_zero = True.
ClampAfter ==
  /\ pc = "done"
  /\ nonpositive_to_zero /\ zmax_m # NoneF
  /\ out' = IF FGt(zmax_m, Zero) THEN clamp_depth_to_zmax(out, zmax_m, TRUE) ELSE out
  /\ pc' = "clamped"
  /\ UNCHANGED <<d, valid, op, ret, args, noises, post>>

NextClamp ==
  \/ ClampCall
  \/ Begin
  \/ \E o \in NoiseModels : RunGaussian(o)
  \/ \E o \in NoiseModels : RunMultiplicative(o)
  \/ \E o \in NoiseModels : RunQuantization(o)
  \/ \E o \in NoiseModels : RunDropout(o)
  \/ Finish
  \/ ClampAfter

SpecClamp == InitClamp /\ [][NextClamp]_vars

\* C29: clamp_depth_to_zmax(d, zmax, f) equals apply_noise_chain(d, [],
\* zmax_m=zmax, invalid_fill=0.0, nonpositive_to_zero=f) for every frame, every
\* zmax and both values of f; and the batch's clamp after the chain changes no
\* pixel of the chain's result.
C29_ClampIsEmptyChain ==
  /\ [](Done /\ noises = <<>> => out = ret)
  /\ [][ClampAfter => out' = out]_vars

\* The clamp after a chain with operators has run under zmax = 10.0 on a result
\* holding a filled pixel and a kept one, and the clamp of the input frame had
\* set a pixel of 12.0 to 0.0.
C29_Witness ==
  /\ pc = "clamped" /\ zmax_m = Fin(10 * One) /\ Len(noises) > 0
  /\ \E i \in Pixels : FGt(d[i], zmax_m) /\ out[i] = Zero
  /\ \E j \in Pixels : out[j] # Zero /\ out[j] # depth_m[j]
  /\ \E k \in Pixels : depth_m[k] = Fin(12 * One) /\ ret[k] = Zero

-----------------------------------------------------------------------------
(* apply_noise_chain on a supplied list, with the arrays as objects: which *)
(* array object each name is bound to, and which apply got which objects.  *)

\* `d = d` where the code copies: the name stays bound to the same object.
CopyAliased(h, id) == [heap |-> h, id |-> id]

\* ndarray.copy(), astype(copy=True): a new object with the contents of `id`.
Copy(h, id) == [heap |-> Append(h, h[id]), id |-> Len(h) + 1]

\* A new array object made by an expression, such as a mask.
Alloc(h, contents) == [heap |-> Append(h, contents), id |-> Len(h) + 1]

\* d[...] = ...: an assignment into the object `id`.
Store(h, id, contents) == [h EXCEPT ![id] = contents]

\* The draws an operator's apply makes: one per pixel.
DrawsOf(o) ==
  IF FLe(o.param, Zero) \/ o.kind = "Quantization" THEN {[i \in Pixels |-> Zero]}
  ELSE [Pixels -> CASE o.kind = "Gaussian" -> NoiseDraws
                    [] o.kind = "Multiplicative" -> ChainScaleDraws
                    [] o.kind = "Dropout" -> RandDraws]

\* What apply computes from the contents it is given.
ApplyResult(o, dd, valid_mask, draw) ==
  CASE o.kind = "Gaussian" -> GaussianApply(dd, valid_mask, o.param, draw)
    [] o.kind = "Multiplicative" -> MultiplicativeApply(dd, valid_mask, o.param, draw)
    [] o.kind = "Quantization" -> QuantizationApply(dd, valid_mask, o.param)
    [] o.kind = "Dropout" -> DropoutApply(dd, valid_mask, o.param, o.fill, draw)

\* The early returns of apply: `return d, valid_mask` with the objects it got.
ReturnsInputs(o, valid_mask, draw) ==
  \/ FLe(o.param, Zero)
  \/ o.kind = "Dropout" /\ \A i \in Pixels : ~DropMask(valid_mask, o.param, draw)[i]

\* apply on the objects d_id and v_id: the heap after it and the objects returned.
ApplyOnHeap(h, d_id, v_id, o, draw) ==
  LET r == ApplyResult(o, h[d_id], h[v_id], draw)
  IN  IF ReturnsInputs(o, h[v_id], draw) THEN [heap |-> h, d |-> d_id, valid |-> v_id]
      ELSE LET c == Copy(h, d_id)
               h1 == Store(c.heap, c.id, r[1])
           IN  IF o.kind = "Dropout"
               THEN LET m == Copy(h1, v_id)
                    IN  [heap |-> Store(m.heap, m.id, r[2]), d |-> c.id, valid |-> m.id]
               ELSE [heap |-> h1, d |-> c.id, valid |-> v_id]

\* `for n in noises` taking the list from its end.
NextOperatorReversed(ns, cs) == ns[Len(ns) - Len(cs)]

\* `for n in noises`: the operator of the iteration that follows the calls cs.
NextOperator(ns, cs) == ns[Len(cs) + 1]

NoiseLists == UNION {[1..n -> NoiseModels] : n \in 0..MaxNoises}

InitList ==
  /\ pc = "list_call"
  /\ depth_m \in ChainFrames
  /\ zmax_m = Fin(10 * One)
  /\ invalid_fill = Zero
  /\ nonpositive_to_zero = TRUE
  /\ noises \in NoiseLists
  /\ heap = <<depth_m>>
  /\ refs = [depth_m |-> 1, d |-> 0, valid |-> 0, out |-> 0]
  /\ calls = <<>>
  /\ d = Unset /\ valid = Unset /\ out = Unset /\ op = Unset /\ ret = Unset
  /\ io = <<>> /\ files = Unset /\ invalid_color = Unset
  /\ cfg = Unset /\ manifest = Unset /\ row = 0
  /\ NoRend

\* d = depth_m.astype(np.float32, copy=True); valid = _initial_valid_mask(d, zmax_m)
ListBegin ==
  /\ pc = "list_call"
  /\ LET c == Copy(heap, refs.depth_m)
         m == Alloc(c.heap, _initial_valid_mask(c.heap[c.id], zmax_m))
     IN  /\ heap' = m.heap
         /\ refs' = [refs EXCEPT !.d = c.id, !.valid = m.id]
  /\ pc' = "list_loop"
  /\ UNCHANGED <<d, valid, op, ret, args, noises, out, io, files, invalid_color, cfg,
                 manifest, row, calls, rend>>

\* One iteration of `for n in noises: d, valid = n.apply(d, valid)`.
ListApply ==
  /\ pc = "list_loop"
  /\ Len(calls) < Len(noises)
  /\ LET o == NextOperator(noises, calls)
     IN  \E draw \in DrawsOf(o) :
           LET r == ApplyOnHeap(heap, refs.d, refs.valid, o, draw)
           IN  /\ heap' = r.heap
               /\ refs' = [refs EXCEPT !.d = r.d, !.valid = r.valid]
               /\ calls' = Append(calls, [op |-> o, d_in |-> refs.d, valid_in |-> refs.valid,
                                          d_out |-> r.d, valid_out |-> r.valid])
  /\ UNCHANGED <<pc, d, valid, op, ret, args, noises, out, io, files, invalid_color, cfg,
                 manifest, row, rend>>

\* The list is exhausted: the mask from the values, out = d.copy(), the fill,
\* return out.astype(np.float32).
ListFinish ==
  /\ pc = "list_loop"
  /\ Len(calls) = Len(noises)
  /\ LET s == Sanitized(heap[refs.d], zmax_m, invalid_fill, nonpositive_to_zero)
         m == Alloc(heap, s[2])
         c == Copy(m.heap, refs.d)
         h == Store(c.heap, c.id, s[1])
         a == Copy(h, c.id)
     IN  /\ heap' = a.heap
         /\ refs' = [refs EXCEPT !.valid = m.id, !.out = a.id]
  /\ pc' = "list_done"
  /\ UNCHANGED <<d, valid, op, ret, args, noises, out, io, files, invalid_color, cfg,
                 manifest, row, calls, rend>>

NextList ==
  \/ ListBegin
  \/ ListApply
  \/ ListFinish

SpecList == InitList /\ [][NextList]_vars

\* C23: apply_noise_chain invokes each operator of the supplied list exactly
\* once, in list order, each receiving the frame and the mask returned by the
\* one before (the first: the chain's own copy and initial mask); it never
\* reorders, skips or repeats, and the sanitize step runs only after the last
\* operator, on the frame that operator returned.
C23_ListOrder ==
  /\ Len(calls) <= Len(noises)
  /\ \A k \in 1..Len(calls) :
       /\ calls[k].op = noises[k]
       /\ k = 1 => calls[k].d_in = 2 /\ calls[k].valid_in = 3
       /\ k > 1 => /\ calls[k].d_in = calls[k - 1].d_out
                   /\ calls[k].valid_in = calls[k - 1].valid_out
  /\ pc = "list_done" =>
       /\ Len(calls) = Len(noises)
       /\ refs.d = IF calls = <<>> THEN 2 ELSE calls[Len(calls)].d_out
       /\ heap[refs.out] = Sanitized(heap[refs.d], zmax_m, invalid_fill, nonpositive_to_zero)[1]

\* A list of two different operators has been run to the end, the second
\* one receiving a frame object the first one made.
C23_Witness ==
  /\ pc = "list_done" /\ Len(calls) = 2
  /\ noises[1].kind # noises[2].kind
  /\ calls[1].d_out # calls[1].d_in
  /\ calls[2].d_in = calls[1].d_out /\ calls[2].d_out # calls[2].d_in

\* C26: apply_noise_chain and every operator's apply leave the caller's depth
\* array and mask array unmodified: every change is made on a copy, so no array
\* object that exists is ever written, and the depth_m object keeps the
\* contents it was passed with.
C26_InputsUnmodified ==
  /\ [][\A id \in 1..Len(heap) : heap'[id] = heap[id]]_vars
  /\ [](heap # <<>> => heap[refs.depth_m] = depth_m)

\* A Dropout has returned a new frame and a new mask whose contents differ from
\* those of the objects it was given, and the chain has returned a frame that
\* differs from depth_m.
C26_Witness ==
  /\ pc = "list_done" /\ heap[refs.out] # depth_m
  /\ \E k \in 1..Len(calls) :
       /\ calls[k].op.kind = "Dropout"
       /\ heap[calls[k].d_out] # heap[calls[k].d_in]
       /\ heap[calls[k].valid_out] # heap[calls[k].valid_in]

-----------------------------------------------------------------------------
(* visualize_exr_to_png (src/src/improc/depth_viz.py).                     *)

\* 65535.0 in the reduced format: the largest integer that fills the significand.
MaxCode == Pow2(Prec) - 1
MaxCodeF == Fin(MaxCode * One)

\* The zmax_m test without math.isfinite.
ZmaxRejectedNoFinite(z) == FLe(z, Zero)

\* zmax_m <= 0 or not math.isfinite(zmax_m)
ZmaxRejected(z) == FLe(z, Zero) \/ ~IsFinite(z)

\* np.nan_to_num(depth, nan=np.inf, posinf=np.inf, neginf=0.0)
nan_to_num(x) ==
  IF IsNaN(x) THEN PosInf ELSE IF x = NegInf THEN Zero ELSE x

\* np.clip(x, lo, hi)
FClip(x, lo, hi) ==
  IF IsNaN(x) THEN NaN ELSE IF FLt(x, lo) THEN lo ELSE IF FGt(x, hi) THEN hi ELSE x

\* .astype(np.uint16) of an integer-valued float in [0, 65535]
U16(x) == (x.n \div One) % (MaxCode + 1)

\* The encoding rounding toward zero instead of np.round.
VizPixelTruncated(x, zmax) ==
  LET p == FMul(FDiv(FClip(nan_to_num(x), Zero, zmax), zmax), MaxCodeF)
  IN  p.n \div One

\* png_u16 of one pixel: sanitize, clamp, normalize, scale, round, cast.
VizPixel(x, zmax) ==
  U16(FRint(FMul(FDiv(FClip(nan_to_num(x), Zero, zmax), zmax), MaxCodeF)))

\* The contents of the EXR file, the zmax_m argument and the invalid_color keyword
\* (absent, or the triple the visualization batch passes).
VizFrames == FramesOver(Float32)
VizZmaxInputs == {NaN, PosInf, NegInf, Fin(-One), Zero, Fin(3 * One), Fin(10 * One)}
InvalidColors == {Unset, <<0, 180, 0>>}
FileStates == [readable : BOOLEAN, writable : BOOLEAN]

IoCall(call, path) == [call |-> call, path |-> path]

InitViz ==
  /\ pc = "viz_call"
  /\ depth_m \in VizFrames
  /\ zmax_m \in VizZmaxInputs
  /\ invalid_color \in InvalidColors
  /\ files \in FileStates
  /\ io = <<>>
  /\ d = Unset /\ valid = Unset /\ out = Unset /\ op = Unset /\ ret = Unset
  /\ invalid_fill = Zero /\ nonpositive_to_zero = TRUE /\ noises = <<>>
  /\ cfg = Unset /\ manifest = Unset /\ row = 0
  /\ NoMem /\ NoRend

Raise(e) ==
  /\ pc' = "raised"
  /\ ret' = e

\* def visualize_exr_to_png(depth_exr_path, depth_viz_png_path, zmax_m): the
\* function has no invalid_color parameter.
VizBindFails ==
  /\ pc = "viz_call"
  /\ invalid_color # Unset
  /\ Raise("TypeError")
  /\ UNCHANGED <<d, valid, op, args, noises, out, post>>

VizRejectZmax ==
  /\ pc = "viz_call"
  /\ invalid_color = Unset
  /\ ZmaxRejected(zmax_m)
  /\ Raise("ValueError")
  /\ UNCHANGED <<d, valid, op, args, noises, out, post>>

\* Read EXR to float32.
VizRead ==
  /\ pc = "viz_call"
  /\ invalid_color = Unset
  /\ ~ZmaxRejected(zmax_m)
  /\ io' = Append(io, IoCall("read", "depth_exr_path"))
  /\ IF files.readable
     THEN d' = depth_m /\ pc' = "viz_encode" /\ ret' = ret
     ELSE d' = d /\ Raise("OSError")
  /\ UNCHANGED <<valid, op, args, noises, out, files, invalid_color, cfg, manifest, row, mem, rend>>

VizEncode ==
  /\ pc = "viz_encode"
  /\ out' = [i \in Pixels |-> VizPixel(d[i], zmax_m)]
  /\ pc' = "viz_write"
  /\ UNCHANGED <<d, valid, op, ret, args, noises, post>>

\* os.makedirs, then the PNG writer.
VizWrite ==
  /\ pc = "viz_write"
  /\ io' = io \o <<IoCall("makedirs", "depth_viz_png_path"), IoCall("write", "depth_viz_png_path")>>
  /\ IF files.writable
     THEN pc' = "viz_done" /\ ret' = "None"
     ELSE Raise("OSError")
  /\ UNCHANGED <<d, valid, op, args, noises, out, files, invalid_color, cfg, manifest, row, mem, rend>>

NextViz == VizBindFails \/ VizRejectZmax \/ VizRead \/ VizEncode \/ VizWrite

SpecViz == InitViz /\ [][NextViz]_vars

-----------------------------------------------------------------------------
(* Properties of visualize_exr_to_png.                                     *)

VizEncoded == pc \in {"viz_write", "viz_done"}
VizCalled == pc # "viz_call"

\* A pixel of the file is valid: finite, strictly positive and <= zmax.
VizValid(x) == x.cls = "fin" /\ x.n > 0 /\ x.n <= zmax_m.n

\* C11: in the 16-bit image every invalid pixel (non-finite, non-positive or
\* above zmax) is encoded as 0.
C11_InvalidEncodesZero ==
  VizEncoded => \A i \in Pixels : ~VizValid(d[i]) => out[i] = 0

\* |code - c / z * MaxCode| <= 1/2 + 2 * MaxCode * 2^-Prec + (MaxCode + 1) * u / 2,
\* u = 2^-Prec being the spacing of the subnormals (float32: 2^-149).
WithinRoundedCode(c, z, code) ==
  Pow2(Prec + 1) * Abs(code * z - c * MaxCode) <= z * (Pow2(Prec) + 5 * MaxCode + 1)

\* C12 as stated: every code lies in [0, 65535] and a valid pixel's code is
\* clamp(value, 0, zmax) / zmax * 65535 rounded to the nearest integer.
C12_BoundsAndExactCode ==
  VizEncoded =>
    \A i \in Pixels :
      /\ out[i] \in 0..MaxCode
      /\ VizValid(d[i]) => out[i] = RoundHalfEven(d[i].n * MaxCode, zmax_m.n)

\* C12: every code lies in [0, 65535]; a valid pixel's code is np.round of the
\* float32 product of the float32 quotient value / zmax with 65535, which is
\* within 1/2 plus the two rounding errors of value / zmax * 65535.
C12_BoundsAndRoundedCode ==
  VizEncoded =>
    \A i \in Pixels :
      /\ out[i] \in 0..MaxCode
      /\ VizValid(d[i]) =>
           /\ Fin(out[i] * One) = FRint(FMul(FDiv(d[i], zmax_m), MaxCodeF))
           /\ WithinRoundedCode(d[i].n, zmax_m.n, out[i])

\* The image holds a valid pixel whose code is not the exactly rounded one, next
\* to a non-finite pixel.
C12_Witness ==
  /\ VizEncoded
  /\ \E i \in Pixels :
       VizValid(d[i]) /\ out[i] # RoundHalfEven(d[i].n * MaxCode, zmax_m.n)
  /\ \E j \in Pixels : ~IsFinite(d[j]) /\ out[j] = MaxCode

\* The largest value among the valid pixels of the file, 1.0 if there is none.
AutoCeiling ==
  LET vs == {depth_m[i].n : i \in {j \in Pixels : depth_m[j].cls = "fin" /\ depth_m[j].n > 0}}
  IN  IF vs = {} THEN One ELSE CHOOSE m \in vs : \A v \in vs : v <= m

\* C13: called with zmax <= 0 the visualizer succeeds and uses the largest valid
\* value as the ceiling, so a lone valid pixel of 3.0 with zmax = 0 gets the
\* largest code.
C13_AutoCeiling ==
  VizCalled /\ invalid_color = Unset /\ IsFinite(zmax_m) /\ zmax_m.n <= 0 =>
    /\ ~(pc = "raised" /\ ret = "ValueError")
    /\ VizEncoded =>
         \A i \in Pixels : depth_m[i].cls = "fin" /\ depth_m[i].n = AutoCeiling => out[i] = MaxCode

\* C14: a negative or non-finite zmax makes visualize_exr_to_png raise ValueError
\* before the depth file is read and before any directory or file is created.
C14_BadZmaxRaisesFirst ==
  VizCalled /\ invalid_color = Unset /\ (~IsFinite(zmax_m) \/ zmax_m.n < 0) =>
    pc = "raised" /\ ret = "ValueError" /\ io = <<>> /\ out = Unset

\* The call with zmax = NaN has raised ValueError with no file touched.
C14_Witness ==
  /\ pc = "raised" /\ ret = "ValueError" /\ io = <<>>
  /\ IsNaN(zmax_m) /\ files.readable /\ files.writable

\* C15: code 0 is reserved for invalid pixels: every valid pixel (0 < depth <=
\* zmax) gets a code in 1..65535.
C15_ZeroReserved ==
  VizEncoded => \A i \in Pixels : VizValid(d[i]) => out[i] \in 1..MaxCode

\* C16: with an invalid colour supplied the result is a 3-channel image whose
\* invalid pixels are the colour and whose valid pixels are grey triples.
C16_InvalidColourImage ==
  VizCalled /\ invalid_color # Unset /\ ~ZmaxRejected(zmax_m) /\ files.readable =>
    /\ pc # "raised"
    /\ VizEncoded =>
         \A i \in Pixels :
           out[i] = IF VizValid(d[i])
                    THEN LET g == RoundHalfEven(d[i].n * 255, zmax_m.n) IN <<g, g, g>>
                    ELSE invalid_color

-----------------------------------------------------------------------------
(* The noise batch: main of src/src/improc/cli_depth_noise_batch.py.       *)
(* The depth values are left out here: this part follows which files the   *)
(* batch reads and writes and which error ends it.                         *)

\* One sub-table of [noise]: _parse_noise takes float() of whatever is given.
SubCfg(enabled, param) == [enabled |-> enabled, param |-> param, fill |-> Zero]
DropCfg(enabled, p, fill) == [enabled |-> enabled, param |-> p, fill |-> fill]

GaussianCfgs ==
  {SubCfg(FALSE, Fin(One)), SubCfg(TRUE, Zero), SubCfg(TRUE, Fin(One)), SubCfg(TRUE, Fin(-One))}
MultiplicativeCfgs == {SubCfg(FALSE, Fin(One)), SubCfg(TRUE, Fin(One)), SubCfg(TRUE, Fin(-One))}
QuantizationCfgs == {SubCfg(FALSE, Fin(One)), SubCfg(TRUE, Fin(One)), SubCfg(TRUE, Fin(-One))}
DropoutCfgs ==
  {DropCfg(FALSE, Fin(One \div 2), Zero), DropCfg(TRUE, Zero, Zero),
   DropCfg(TRUE, Fin(One \div 2), Zero), DropCfg(TRUE, Fin(-One), Zero),
   DropCfg(TRUE, Fin(2 * One), Zero)}

\* The configuration file: [noise] and render.zmax_m.
BatchConfigs ==
  [enabled : BOOLEAN, zmax_m : {Zero, Fin(10 * One)},
   gaussian : GaussianCfgs, multiplicative : MultiplicativeCfgs,
   quantization : QuantizationCfgs, dropout : DropoutCfgs]

\* A manifest row: the fields it has, and whether its ground-truth EXR can be
\* read and its files written.
ManifestRow(fields, readable, writable) ==
  [fields |-> fields, readable |-> readable, writable |-> writable]

\* The fields of a row written by the sequence renderer.
RendererFields ==
  {"frame", "rgb", "depth_exr", "depth_viz", "mask", "T_WC_txt", "T_WD_txt", "T_WO_txt",
   "p_WC", "p_W_target"}

\* The four fields without depth_viz_gt.
RequiredFieldsNoVizGt == {"depth_exr_gt", "depth_exr_noisy", "depth_viz_noisy"}

\* The fields main takes from each row.
RequiredFields == {"depth_exr_gt", "depth_exr_noisy", "depth_viz_noisy", "depth_viz_gt"}

ManifestRows ==
  {ManifestRow(RequiredFields \cup {"frame", "rgb"}, TRUE, TRUE),
   ManifestRow(RequiredFields \cup {"frame", "rgb"}, FALSE, TRUE),
   ManifestRow(RequiredFields \cup {"frame", "rgb"}, TRUE, FALSE),
   ManifestRow(RendererFields, TRUE, TRUE),
   ManifestRow(RequiredFieldsNoVizGt \cup {"frame", "rgb"}, TRUE, TRUE)}

Manifests == UNION {[1..n -> ManifestRows] : n \in 0..MaxRows}

\* None in (exr_gt_rel, exr_noisy_rel, viz_noisy_rel, viz_gt_rel)
LacksField(r) == ~(RequiredFields \subseteq r.fields)

\* The chain main builds from the configuration.
\* The chain built from the enabled flags alone, the parameters untested.
BuiltChainEnabledOnly(c) ==
  (IF c.gaussian.enabled THEN <<Noise("Gaussian", c.gaussian.param, Zero)>> ELSE <<>>)
  \o (IF c.multiplicative.enabled
      THEN <<Noise("Multiplicative", c.multiplicative.param, Zero)>> ELSE <<>>)
  \o (IF c.quantization.enabled
      THEN <<Noise("Quantization", c.quantization.param, Zero)>> ELSE <<>>)
  \o (IF c.dropout.enabled
      THEN <<Noise("Dropout", c.dropout.param, c.dropout.fill)>> ELSE <<>>)

BuiltChain(c) ==
  (IF c.gaussian.enabled /\ FGt(c.gaussian.param, Zero)
   THEN <<Noise("Gaussian", c.gaussian.param, Zero)>> ELSE <<>>)
  \o (IF c.multiplicative.enabled /\ FGt(c.multiplicative.param, Zero)
      THEN <<Noise("Multiplicative", c.multiplicative.param, Zero)>> ELSE <<>>)
  \o (IF c.quantization.enabled /\ FGt(c.quantization.param, Zero)
      THEN <<Noise("Quantization", c.quantization.param, Zero)>> ELSE <<>>)
  \o (IF c.dropout.enabled /\ FGt(c.dropout.param, Zero)
      THEN <<Noise("Dropout", c.dropout.param, c.dropout.fill)>> ELSE <<>>)

InitBatch ==
  /\ pc = "batch_import"
  /\ cfg \in BatchConfigs
  /\ manifest \in Manifests
  /\ files \in [manifest : BOOLEAN]
  /\ row = 0
  /\ io = <<>>
  /\ noises = <<>>
  /\ zmax_m = NoneF
  /\ ret = Unset
  /\ d = Unset /\ valid = Unset /\ out = Unset /\ op = Unset
  /\ depth_m = Unset /\ invalid_fill = Zero /\ nonpositive_to_zero = TRUE
  /\ invalid_color = Unset
  /\ NoMem /\ NoRend

RowFile(k, field) == <<k, field>>
ConfigFile == <<0, "config">>
ManifestFile == <<0, "manifest.csv">>

\* The module's imports.  config_parser.py defines load_scene_cfg, not load_config,
\* and depth_noise.py does not define read_exr_depth and write_exr_depth (they
\* are in read_write_exr.py): with the modules as they are the import raises
\* ImportError; main runs only where these names are bound.
ImportFails ==
  /\ pc = "batch_import"
  /\ Raise("ImportError")
  /\ UNCHANGED <<d, valid, op, args, noises, out, post>>

Imported ==
  /\ pc = "batch_import"
  /\ pc' = "batch_load"
  /\ UNCHANGED <<d, valid, op, ret, args, noises, out, post>>

\* main without the noise.enabled test.
BatchLoadIgnoresEnabled ==
  /\ pc = "batch_load"
  /\ zmax_m' = cfg.zmax_m
  /\ IF files.manifest
     THEN /\ io' = io \o <<IoCall("read", ConfigFile), IoCall("read", ManifestFile)>>
          /\ pc' = "batch_build" /\ ret' = ret
     ELSE /\ io' = Append(io, IoCall("read", ConfigFile))
          /\ Raise("FileNotFoundError")
  /\ UNCHANGED <<d, valid, op, depth_m, invalid_fill, nonpositive_to_zero, noises, out,
                 files, invalid_color, cfg, manifest, row, mem, rend>>

\* load_config, the noise.enabled test, zmax, the manifest's existence and rows.
BatchLoad ==
  /\ pc = "batch_load"
  /\ IF ~cfg.enabled
     THEN /\ io' = Append(io, IoCall("read", ConfigFile))
          /\ pc' = "batch_done" /\ ret' = "None"
          /\ zmax_m' = zmax_m
     ELSE /\ zmax_m' = cfg.zmax_m
          /\ IF files.manifest
             THEN /\ io' = io \o <<IoCall("read", ConfigFile), IoCall("read", ManifestFile)>>
                  /\ pc' = "batch_build" /\ ret' = ret
             ELSE /\ io' = Append(io, IoCall("read", ConfigFile))
                  /\ Raise("FileNotFoundError")
  /\ UNCHANGED <<d, valid, op, depth_m, invalid_fill, nonpositive_to_zero, noises, out,
                 files, invalid_color, cfg, manifest, row, mem, rend>>

\* build noise chain from config
BuildChain ==
  /\ pc = "batch_build"
  /\ noises' = BuiltChain(cfg)
  /\ pc' = "batch_rows"
  /\ UNCHANGED <<d, valid, op, ret, args, out, post>>

\* `for r in rows` with no row left.
RowsDone ==
  /\ pc = "batch_rows"
  /\ row = Len(manifest)
  /\ pc' = "batch_done" /\ ret' = "None"
  /\ UNCHANGED <<d, valid, op, args, noises, out, post>>

\* The next row: its four fields, KeyError if one is missing.
CheckRow ==
  /\ pc = "batch_rows"
  /\ row < Len(manifest)
  /\ row' = row + 1
  /\ IF LacksField(manifest[row + 1])
     THEN Raise("KeyError")
     ELSE pc' = "row_read" /\ ret' = ret
  /\ UNCHANGED <<d, valid, op, args, noises, out, io, files, invalid_color, cfg, manifest, mem, rend>>

\* read_exr_depth without the test of cv2.imread's result.
ReadOutcomeUnchecked(r) == "ok"

\* read_exr_depth: IOError when cv2.imread returns None.
ReadOutcome(r) == IF r.readable THEN "ok" ELSE "IOError"

\* write_exr_depth: os.makedirs, cv2.imwrite, IOError when it returns false.
WriteOutcome(r) == IF r.writable THEN "ok" ELSE "IOError"
WriteCalls(path) == <<IoCall("makedirs", path), IoCall("write", path)>>

\* d_gt = read_exr_depth(str(exr_gt_abs))
ReadGT ==
  /\ pc = "row_read"
  /\ io' = Append(io, IoCall("read", RowFile(row, "depth_exr_gt")))
  /\ IF ReadOutcome(manifest[row]) = "ok"
     THEN pc' = "row_clamp" /\ ret' = ret
     ELSE Raise(ReadOutcome(manifest[row]))
  /\ UNCHANGED <<d, valid, op, args, noises, out, files, invalid_color, cfg, manifest, row, mem, rend>>

\* if zmax > 0.0: clamp the ground truth and write it back over its file.
ClampGT ==
  /\ pc = "row_clamp"
  /\ IF FGt(zmax_m, Zero)
     THEN /\ io' = io \o WriteCalls(RowFile(row, "depth_exr_gt"))
          /\ IF WriteOutcome(manifest[row]) = "ok"
             THEN pc' = "row_noise" /\ ret' = ret
             ELSE Raise(WriteOutcome(manifest[row]))
     ELSE /\ io' = io
          /\ pc' = "row_noise" /\ ret' = ret
  /\ UNCHANGED <<d, valid, op, args, noises, out, files, invalid_color, cfg, manifest, row, mem, rend>>

\* apply_noise_chain, the statistics, the clamp after the noise, write noisy exr.
NoiseRow ==
  /\ pc = "row_noise"
  /\ io' = io \o WriteCalls(RowFile(row, "depth_exr_noisy"))
  /\ IF WriteOutcome(manifest[row]) = "ok"
     THEN pc' = "row_viz" /\ ret' = ret
     ELSE Raise(WriteOutcome(manifest[row]))
  /\ UNCHANGED <<d, valid, op, args, noises, out, files, invalid_color, cfg, manifest, row, mem, rend>>

\* visualize_exr_to_png(d_noisy, str(viz_noisy_abs), zmax): ValueError when zmax
\* is 0; otherwise the array d_noisy is given where the function opens a path,
\* and the EXR reader in use raises.  The statements after this call and the
\* later rows are never reached.
VizNoisy ==
  /\ pc = "row_viz"
  /\ IF ZmaxRejected(zmax_m)
     THEN Raise("ValueError")
     ELSE \E e \in {"TypeError", "OSError"} : Raise(e)
  /\ UNCHANGED <<d, valid, op, args, noises, out, post>>

NextBatch ==
  \/ ImportFails \/ Imported \/ BatchLoad \/ BuildChain
  \/ RowsDone \/ CheckRow \/ ReadGT \/ ClampGT \/ NoiseRow \/ VizNoisy

SpecBatch == InitBatch /\ [][NextBatch]_vars

-----------------------------------------------------------------------------
(* Properties of the noise batch.                                          *)

RowIndices == 1..Len(manifest)
IoOfRow(k) == {j \in 1..Len(io) : io[j].path[1] = k}

\* A sigma or step below zero, or a dropout probability outside [0, 1].
BadNoiseParam(c) ==
  \/ c.gaussian.param.n < 0 \/ c.multiplicative.param.n < 0 \/ c.quantization.param.n < 0
  \/ c.dropout.param.n < 0 \/ c.dropout.param.n > One

\* C17: a noise parameter outside its domain makes configuration loading or chain
\* construction fail with an error before any manifest row is read, written or
\* processed.
C17_BadParameterFailsFast ==
  cfg.enabled /\ BadNoiseParam(cfg) =>
    /\ pc \in {"batch_import", "batch_load", "batch_build", "raised"}
    /\ row = 0 /\ \A k \in RowIndices : IoOfRow(k) = {}

\* C18: a row lacking one of depth_exr_gt, depth_exr_noisy, depth_viz_noisy and
\* depth_viz_gt makes the noise batch raise when it comes to the row, before the
\* row's depth file is read and before any file of the row is written.
C18_MissingFieldRaisesFirst ==
  \A k \in RowIndices :
    (\E f \in {"depth_exr_gt", "depth_exr_noisy", "depth_viz_noisy", "depth_viz_gt"} :
        f \notin manifest[k].fields) =>
      /\ IoOfRow(k) = {}
      /\ row = k => pc = "raised" /\ ret = "KeyError"

\* The batch has raised KeyError on a first row that lacks depth_viz_gt only,
\* having read the configuration and the manifest and nothing else.
C18_Witness ==
  /\ pc = "raised" /\ ret = "KeyError" /\ row = 1
  /\ manifest[1].fields = RequiredFieldsNoVizGt \cup {"frame", "rgb"}
  /\ io = <<IoCall("read", ConfigFile), IoCall("read", ManifestFile)>>

\* C19: a row written by the sequence renderer (fields depth_exr and depth_viz)
\* is processed without a missing-field error.
C19_RendererRowAccepted ==
  \A k \in RowIndices :
    manifest[k].fields = RendererFields /\ row = k => ~(pc = "raised" /\ ret = "KeyError")

\* C20: a failed read of a row's ground-truth depth raises IOError out of the
\* batch with no file of the row written; a failed write raises IOError and is
\* the batch's last file-system call.
C20_IoErrorPropagates ==
  \A k \in RowIndices :
    /\ (\E j \in IoOfRow(k) : io[j].call = "read") /\ ~manifest[k].readable =>
         /\ pc = "raised" /\ ret = "IOError"
         /\ \A j \in IoOfRow(k) : io[j].call = "read"
    /\ (\E j \in IoOfRow(k) : io[j].call = "write") /\ ~manifest[k].writable =>
         /\ pc = "raised" /\ ret = "IOError"
         /\ io[Len(io)].call = "write" /\ Cardinality({j \in IoOfRow(k) : io[j].call = "write"}) = 1

\* The read of the first row's ground truth has failed: the batch has raised
\* IOError, a second row is left untouched.
C20_Witness ==
  /\ pc = "raised" /\ ret = "IOError" /\ row = 1 /\ Len(manifest) = 2
  /\ ~manifest[1].readable
  /\ io[Len(io)] = IoCall("read", RowFile(1, "depth_exr_gt"))
  /\ IoOfRow(2) = {}

\* C21: with noise.enabled false the batch does no noise injection: it returns
\* without reading the manifest and without creating or writing any file,
\* whatever the four sub-configurations say.
C21_DisabledDoesNothing ==
  ~cfg.enabled =>
    /\ \A j \in 1..Len(io) : io[j] = IoCall("read", ConfigFile)
    /\ row = 0 /\ noises = <<>>
    /\ pc \in {"batch_import", "batch_load", "batch_done", "raised"}
    /\ pc = "raised" => ret = "ImportError"

\* The batch has returned with noise.enabled false although the four operators
\* are enabled with positive parameters and the manifest has rows.
C21_Witness ==
  /\ pc = "batch_done" /\ ret = "None" /\ ~cfg.enabled
  /\ cfg.gaussian.enabled /\ cfg.multiplicative.enabled /\ cfg.quantization.enabled
  /\ cfg.dropout.enabled /\ Len(BuiltChain(cfg)) = 4
  /\ files.manifest /\ Len(manifest) = MaxRows
  /\ io = <<IoCall("read", ConfigFile)>>

ChainBuilt ==
  /\ Len(io) >= 2 /\ io[2] = IoCall("read", ManifestFile)
  /\ pc # "batch_build"
OperatorKinds == <<"Gaussian", "Multiplicative", "Quantization", "Dropout">>
KindRank(kind) == CHOOSE k \in DOMAIN OperatorKinds : OperatorKinds[k] = kind
KindCfg(kind) ==
  CASE kind = "Gaussian" -> cfg.gaussian
    [] kind = "Multiplicative" -> cfg.multiplicative
    [] kind = "Quantization" -> cfg.quantization
    [] kind = "Dropout" -> cfg.dropout

\* C27: the chain the batch builds contains an operator if and only if its
\* sub-configuration is enabled and its parameter is > 0, with the configured
\* parameter, and in the order Gaussian, Multiplicative, Quantization, Dropout.
C27_ChainFromConfig ==
  ChainBuilt =>
    /\ \A k \in DOMAIN OperatorKinds :
         (\E j \in 1..Len(noises) : noises[j].kind = OperatorKinds[k])
           <=> (KindCfg(OperatorKinds[k]).enabled /\ KindCfg(OperatorKinds[k]).param.n > 0)
    /\ \A j \in 1..Len(noises) :
         /\ noises[j].param = KindCfg(noises[j].kind).param
         /\ noises[j].fill = KindCfg(noises[j].kind).fill
    /\ \A i, j \in 1..Len(noises) :
         i < j => KindRank(noises[i].kind) < KindRank(noises[j].kind)

\* A chain of two operators was built from a configuration that enables all
\* four, two of them with a parameter that is not positive.
C27_Witness ==
  /\ ChainBuilt /\ Len(noises) = 2
  /\ \A k \in DOMAIN OperatorKinds : KindCfg(OperatorKinds[k]).enabled
  /\ noises[1].kind = "Multiplicative" /\ noises[2].kind = "Dropout"

NoisyWritten(k) ==
  \E j \in 1..Len(io) : io[j] = IoCall("write", RowFile(k, "depth_exr_noisy"))
SoundRow(r) == r.readable /\ r.writable /\ {"depth_exr_gt", "depth_exr_noisy",
                                            "depth_viz_noisy", "depth_viz_gt"} \subseteq r.fields

-----------------------------------------------------------------------------
(* The compositor renders: render_depth_exr and render_obj_mask of         *)
(* src/src/blender/render_ops.py, render_depth of                          *)
(* src/src/blender_rgbd_render_seq.py.  The scene is its camera, use_nodes *)
(* and render.filepath; the file system is the temporary main-render file. *)

RenderFunctions == {"render_depth", "render_depth_exr", "render_obj_mask"}
Cameras == {"cam_rgb", "cam_depth"}
Scenes ==
  [camera : Cameras \cup {"None"}, use_nodes : BOOLEAN, filepath : {"/tmp/", "out/rgb/0001.png"}]

\* tmp_path, the directory left out.
TmpPath(fn) == IF fn = "render_obj_mask" THEN "__tmp_mask_main.png" ELSE "__tmp_depth_main.png"

\* The finally block restoring the camera and the filepath only.
RestoredSceneKeepsNodes(s, p) == [s EXCEPT !.camera = p.camera, !.filepath = p.filepath]

\* scene.camera = prev_camera; scene.use_nodes = prev_use_nodes;
\* scene.render.filepath = prev_filepath
RestoredScene(s, p) ==
  [s EXCEPT !.camera = p.camera, !.use_nodes = p.use_nodes, !.filepath = p.filepath]

\* files.tmp: the temporary file exists; files.removable: os.remove on it succeeds.
InitRender ==
  /\ pc = "render_call"
  /\ op \in RenderFunctions
  /\ scene \in Scenes
  /\ files \in [tmp : BOOLEAN, removable : BOOLEAN]
  /\ prev = Unset
  /\ io = <<>>
  /\ ret = Unset
  /\ d = Unset /\ valid = Unset /\ out = Unset
  /\ depth_m = Unset /\ zmax_m = NoneF /\ invalid_fill = Zero /\ nonpositive_to_zero = TRUE
  /\ noises = <<>> /\ invalid_color = Unset /\ cfg = Unset /\ manifest = Unset /\ row = 0
  /\ NoMem

RenderFrame == <<d, valid, op, ret, args, noises, out, invalid_color, cfg, manifest, row, mem>>

\* prev_camera = scene.camera; prev_use_nodes = scene.use_nodes;
\* prev_filepath = scene.render.filepath
RenderEnter ==
  /\ pc = "render_call"
  /\ prev' = [camera |-> scene.camera, use_nodes |-> scene.use_nodes,
              filepath |-> scene.filepath]
  /\ pc' = "render_try"
  /\ UNCHANGED <<scene, io, files, RenderFrame>>

\* scene.camera = cam_obj; scene.render.filepath = tmp_path
RenderTarget ==
  /\ pc = "render_try"
  /\ \E cam_obj \in Cameras :
       scene' = [scene EXCEPT !.camera = cam_obj, !.filepath = TmpPath(op)]
  /\ pc' = "render_setup"
  /\ UNCHANGED <<prev, io, files, RenderFrame>>

\* The compositor setup: scene.use_nodes = True, then the node tree; it
\* completes, or raises once use_nodes is set.
RenderSetup ==
  /\ pc = "render_setup"
  /\ scene' = [scene EXCEPT !.use_nodes = TRUE]
  /\ pc' \in {"render_render", "render_unwind"}
  /\ UNCHANGED <<prev, io, files, RenderFrame>>

\* bpy.ops.render.render(write_still=True): writes the main render to
\* scene.render.filepath and completes, or raises with or without the file.
RenderRender ==
  /\ pc = "render_render"
  /\ \/ /\ files' = [files EXCEPT !.tmp = TRUE]
        /\ io' = Append(io, IoCall("write", scene.filepath))
        /\ pc' \in {"render_finalize", "render_unwind"}
     \/ /\ UNCHANGED <<files, io>>
        /\ pc' = "render_unwind"
  /\ UNCHANGED <<scene, prev, RenderFrame>>

\* finalize_file_output on the compositor's outputs: os.remove and shutil.move
\* complete or raise.
RenderFinalize ==
  /\ pc = "render_finalize"
  /\ pc' \in {"render_finally", "render_unwind"}
  /\ UNCHANGED <<scene, prev, io, files, RenderFrame>>

\* The finally block, entered normally (render_finally) or with an exception
\* in flight (render_unwind): os.remove(tmp_path) if the file exists, its
\* failure printed as a warning; the three assignments; return or re-raise.
RenderFinally ==
  /\ pc \in {"render_finally", "render_unwind"}
  /\ IF files.tmp
     THEN /\ io' = Append(io, IoCall("remove", TmpPath(op)))
          /\ files' = [files EXCEPT !.tmp = ~files.removable]
     ELSE UNCHANGED <<io, files>>
  /\ scene' = RestoredScene(scene, prev)
  /\ IF pc = "render_finally"
     THEN pc' = "render_returned" /\ ret' = "None"
     ELSE Raise("RuntimeError")
  /\ UNCHANGED <<prev, d, valid, op, args, noises, out, invalid_color, cfg, manifest, row, mem>>

NextRender ==
  \/ RenderEnter
  \/ RenderTarget
  \/ RenderSetup
  \/ RenderRender
  \/ RenderFinalize
  \/ RenderFinally

SpecRender == InitRender /\ [][NextRender]_vars

RenderEnded == pc \in {"render_returned", "raised"}
RemoveCalled == \E j \in 1..Len(io) : io[j] = IoCall("remove", TmpPath(op))

\* C30 as stated: each of the three functions leaves the scene's camera,
\* use_nodes and render filepath at their values before the call and the
\* temporary main-render file removed, when it returns and when it raises.
C30_RestoresAndRemoves ==
  RenderEnded =>
    /\ scene.camera = prev.camera /\ scene.use_nodes = prev.use_nodes
    /\ scene.filepath = prev.filepath
    /\ ~files.tmp

\* C30 amended: each of the three functions leaves the scene's camera,
\* use_nodes and render filepath at their values before the call, when it
\* returns and when it raises; it calls os.remove on the temporary file if the
\* file exists, and the file is gone unless that os.remove fails, a failure
\* that is printed as a warning and changes nothing else.
C30_RestoresAndTriesToRemove ==
  RenderEnded =>
    /\ scene.camera = prev.camera /\ scene.use_nodes = prev.use_nodes
    /\ scene.filepath = prev.filepath
    /\ files.tmp => ~files.removable /\ RemoveCalled

\* A call has raised after the render wrote the temporary file: the scene that
\* had use_nodes off and another camera is as it was, and the file is removed.
C30_Witness ==
  /\ pc = "raised" /\ ret = "RuntimeError"
  /\ ~scene.use_nodes /\ scene.camera = "None" /\ scene.filepath = "out/rgb/0001.png"
  /\ io = <<IoCall("write", TmpPath(op)), IoCall("remove", TmpPath(op))>>
  /\ ~files.tmp

====
